---- MODULE Spec2Model ----
(***************************************************************************)
(* Gait transition sequencer of src/routes/+page.svelte (first script      *)
(* block): the transition graph, the BFS path finder, and the queue-driven *)
(* sequencer that is advanced once per animation frame.                    *)
(*                                                                         *)
(* Times are integers in milliseconds (0.016 s = 16, 0.3 s = 300,          *)
(* 0.05 s = 50).  The THREE.AnimationAction held in currentAction is       *)
(* modelled by the three fields the sequencer reads or writes: whether it  *)
(* exists, its loop mode and its local time.                               *)
(***************************************************************************)
EXTENDS Integers, Sequences, FiniteSets, TLC

VARIABLES
    loaded,             \* mixer has been created by the GLTF load callback
    animations,         \* names of the loaded clips
    currentAction,      \* [set, loop, time]: the action being played
    selectedAnimation,  \* name of the clip of currentAction ("" before any)
    animationQueue,     \* clip names of the transition in flight
    currentAnimIndex,   \* number of queue elements already handed out
    pendingTargetGait,  \* deferred target or NoGait
    currentGaitState,   \* tracked gait
    isTransitioning,
    waitForCycleEnd,
    ev,                 \* what the last operation was and what it did
    hist,               \* the transition in flight: its inputs and its log
    pf,                 \* inputs and results of the pure functions (PathSpec)
    graph,              \* the transition graph the path finder reads
    odd,                \* the clip of the model that has a degenerate length
    live,               \* requests left, the gait asked for last and the
                        \* parity of the frame count (LiveSpec)
    walker              \* the walk-toggle controller of the second script
                        \* block (WalkSpec)

vars == <<loaded, animations, currentAction, selectedAnimation, animationQueue,
          currentAnimIndex, pendingTargetGait, currentGaitState,
          isTransitioning, waitForCycleEnd, ev, hist, pf, graph, odd, live,
          walker>>

---------------------------------------------------------------------------
(* Gaits and the transition graph                                          *)

\* The gaits in declaration order, which is also the key order of every
\* inner object of transitionGraph (the order Object.keys iterates in).
GaitState == <<"stand", "walk", "trot", "gallop", "sit", "reach">>

Gaits == {GaitState[i] : i \in 1..Len(GaitState)}

NoGait == "none"

transitionGraph ==
    [stand |->
        [stand  |-> <<"stand">>,
         walk   |-> <<"stand_to_walk", "walk">>,
         trot   |-> <<"stand_to_trot", "trot">>,
         gallop |-> <<"stand_to_trot", "trot_to_gallop", "gallop">>,
         sit    |-> <<"stand_to_sit", "sit">>,
         reach  |-> <<>>],
     walk |->
        [stand  |-> <<"walk_to_stand", "stand">>,
         walk   |-> <<"walk">>,
         trot   |-> <<"walk_to_trot", "trot">>,
         gallop |-> <<"walk_to_trot", "trot_to_gallop", "gallop">>,
         sit    |-> <<>>,
         reach  |-> <<>>],
     trot |->
        [stand  |-> <<"trot_to_stand", "stand">>,
         walk   |-> <<"trot_to_walk", "walk">>,
         trot   |-> <<"trot">>,
         gallop |-> <<"trot_to_gallop", "gallop">>,
         sit    |-> <<>>,
         reach  |-> <<>>],
     gallop |->
        [stand  |-> <<"gallop_to_trot", "trot_to_stand", "stand">>,
         walk   |-> <<"gallop_to_trot", "trot_to_walk", "walk">>,
         trot   |-> <<"gallop_to_trot", "trot">>,
         gallop |-> <<"gallop">>,
         sit    |-> <<>>,
         reach  |-> <<>>],
     sit |->
        [stand  |-> <<"sit_to_stand", "stand">>,
         walk   |-> <<"sit_to_stand", "stand_to_walk", "walk">>,
         trot   |-> <<"sit_to_stand", "stand_to_trot", "trot">>,
         gallop |-> <<"sit_to_stand", "stand_to_trot", "trot_to_gallop", "gallop">>,
         sit    |-> <<"sit">>,
         reach  |-> <<"sit_to_reach", "reach">>],
     reach |->
        [stand  |-> <<"reach_to_sit", "sit_to_stand", "stand">>,
         walk   |-> <<"reach_to_sit", "sit_to_stand", "stand_to_walk", "walk">>,
         trot   |-> <<"reach_to_sit", "sit_to_stand", "stand_to_trot", "trot">>,
         gallop |-> <<"reach_to_sit", "sit_to_stand", "stand_to_trot",
                      "trot_to_gallop", "gallop">>,
         sit    |-> <<"reach_to_sit", "sit">>,
         reach  |-> <<"reach">>]]

Range(seq) == {seq[i] : i \in 1..Len(seq)}

\* Every clip name the graph mentions.
ClipNames == UNION {Range(transitionGraph[f][t]) : f \in Gaits, t \in Gaits}

---------------------------------------------------------------------------
(* findTransitionPath                                                      *)

\* PushTransition keeping the loop clip of every edge.
PushTransition_KeepLoops(transition, nextState, to) ==
    transition

\* PushTransition skipping the closing loop clip of the last edge too.
PushTransition_AlwaysSkip(transition, nextState, to) ==
    IF transition[Len(transition)] = nextState
    THEN SubSeq(transition, 1, Len(transition) - 1)
    ELSE transition

\* PushTransition comparing the edge's first clip with its destination.
PushTransition_TestsFirst(transition, nextState, to) ==
    IF nextState # to /\ transition[1] = nextState
    THEN Tail(transition)
    ELSE transition

\* The clips of one edge as they are pushed on newPath: the last clip is
\* skipped when the edge does not end in the target and the clip is named
\* like the edge's destination.
PushTransition(transition, nextState, to) ==
    IF nextState # to /\ transition[Len(transition)] = nextState
    THEN SubSeq(transition, 1, Len(transition) - 1)
    ELSE transition

RECURSIVE ScanNextStates_LastKeyFirst(_, _, _, _, _, _)
\* ScanNextStates visiting the keys from the last declared to the first.
ScanNextStates_LastKeyFirst(currentState, currentPath, to, i, queue, visited) ==
    IF i > Len(GaitState)
    THEN [found |-> FALSE, path |-> <<>>, queue |-> queue, visited |-> visited]
    ELSE LET nextState  == GaitState[Len(GaitState) + 1 - i]
             transition == graph[currentState][nextState]
         IN  IF nextState \in visited \/ Len(transition) = 0
             THEN ScanNextStates_LastKeyFirst(currentState, currentPath, to,
                                              i + 1, queue, visited)
             ELSE LET newPath == currentPath \o PushTransition(transition, nextState, to)
                  IN  IF nextState = to
                      THEN [found |-> TRUE, path |-> newPath,
                            queue |-> queue, visited |-> visited]
                      ELSE ScanNextStates_LastKeyFirst(currentState, currentPath,
                               to, i + 1,
                               Append(queue, [state |-> nextState, path |-> newPath]),
                               visited \cup {nextState})

RECURSIVE ScanNextStates(_, _, _, _, _, _)
\* The for loop over Object.keys(graph[currentState]), from key i.
ScanNextStates(currentState, currentPath, to, i, queue, visited) ==
    IF i > Len(GaitState)
    THEN [found |-> FALSE, path |-> <<>>, queue |-> queue, visited |-> visited]
    ELSE LET nextState  == GaitState[i]
             transition == graph[currentState][nextState]
         IN  IF nextState \in visited \/ Len(transition) = 0
             THEN ScanNextStates(currentState, currentPath, to, i + 1, queue, visited)
             ELSE LET newPath == currentPath \o PushTransition(transition, nextState, to)
                  IN  IF nextState = to
                      THEN [found |-> TRUE, path |-> newPath,
                            queue |-> queue, visited |-> visited]
                      ELSE ScanNextStates(currentState, currentPath, to, i + 1,
                               Append(queue, [state |-> nextState, path |-> newPath]),
                               visited \cup {nextState})

RECURSIVE SearchLoop(_, _, _)
\* The while loop over the BFS queue.
SearchLoop(queue, visited, to) ==
    IF Len(queue) = 0
    THEN <<>>
    ELSE LET r == ScanNextStates(Head(queue).state, Head(queue).path, to, 1,
                                 Tail(queue), visited)
         IN  IF r.found THEN r.path ELSE SearchLoop(r.queue, r.visited, to)

\* findTransitionPath reading the direct entry of the opposite direction.
findTransitionPath_Swapped(from, to) ==
    IF from = to
    THEN graph[from][to]
    ELSE IF Len(graph[to][from]) > 0
         THEN graph[to][from]
         ELSE SearchLoop(<<[state |-> from, path |-> <<>>]>>, {from}, to)

\* findTransitionPath without the same-state case: the search never leaves
\* the start state, which is already visited.
findTransitionPath_NoSelf(from, to) ==
    IF from # to /\ Len(graph[from][to]) > 0
    THEN graph[from][to]
    ELSE SearchLoop(<<[state |-> from, path |-> <<>>]>>, {from}, to)

\* findTransitionPath without the search.
findTransitionPath_DirectOnly(from, to) ==
    graph[from][to]

findTransitionPath(from, to) ==
    IF from = to
    THEN graph[from][to]
    ELSE IF Len(graph[from][to]) > 0
         THEN graph[from][to]
         ELSE SearchLoop(<<[state |-> from, path |-> <<>>]>>, {from}, to)

---------------------------------------------------------------------------
(* getCurrentGait                                                          *)

\* String.prototype.includes
Includes(str, word) ==
    \E i \in 1..(Len(str) - Len(word) + 1) :
        SubSeq(str, i, i + Len(word) - 1) = word

\* getCurrentGait testing the keywords in the order of the GaitState type.
getCurrentGait_DeclarationOrder(selected, tracked) ==
    IF Includes(selected, "stand") THEN "stand"
    ELSE IF Includes(selected, "walk") THEN "walk"
    ELSE IF Includes(selected, "trot") THEN "trot"
    ELSE IF Includes(selected, "gallop") THEN "gallop"
    ELSE IF Includes(selected, "sit") THEN "sit"
    ELSE IF Includes(selected, "reach") THEN "reach"
    ELSE tracked

getCurrentGait(selected, tracked) ==
    IF Includes(selected, "gallop") THEN "gallop"
    ELSE IF Includes(selected, "trot") THEN "trot"
    ELSE IF Includes(selected, "walk") THEN "walk"
    ELSE IF Includes(selected, "sit") THEN "sit"
    ELSE IF Includes(selected, "reach") THEN "reach"
    ELSE IF Includes(selected, "stand") THEN "stand"
    ELSE tracked

---------------------------------------------------------------------------
(* Time                                                                    *)

DeltaTime == 16          \* CONFIG.animation.deltaTime
CrossfadeDuration == 300 \* crossfade passed by playNextInQueue
CycleEndWindow == 300    \* animate: timeToEnd <= 0.3
QueueEndMargin == 50     \* animate: time >= duration - 0.05

\* Clip lengths in frames.  The clips are asset data; the lengths are chosen
\* so that a frame lands exactly on each of the two thresholds.
StandFrames == 125
LoopFrames == 24
TransitionFrames == 4

NoOdd == [clip |-> "", duration |-> 0]

\* clip.duration
Duration(clip) ==
    IF clip = odd.clip THEN odd.duration
    ELSE IF clip = "stand" THEN StandFrames * DeltaTime
    ELSE IF clip \in Gaits THEN LoopFrames * DeltaTime + (CycleEndWindow % DeltaTime)
    ELSE TransitionFrames * DeltaTime + (QueueEndMargin % DeltaTime)

\* The times are numbers of JavaScript: NaN is the result of a division of
\* zero by zero or of infinity times zero, every operation on NaN gives NaN
\* and every comparison with NaN is false.
NaN == -1

Minus(a, b) == IF a = NaN \/ b = NaN THEN NaN ELSE a - b

\* a % b on non-negative numbers
Remainder(a, b) == IF a = NaN \/ b = NaN \/ b = 0 THEN NaN ELSE a % b

AtMost(a, b) == a # NaN /\ b # NaN /\ a <= b

\* mixer.update(deltaTime) on the current action: a LoopRepeat action wraps
\* at the clip's duration (time -= duration * floor(time / duration), which is
\* NaN for a duration of zero), a LoopOnce action (clampWhenFinished) stops
\* at it.
UpdateTime(action, duration) ==
    IF action.time = NaN
    THEN NaN
    ELSE IF action.loop
    THEN IF action.time + DeltaTime >= duration
         THEN Remainder(action.time + DeltaTime, duration)
         ELSE action.time + DeltaTime
    ELSE IF action.time + DeltaTime >= duration
         THEN duration
         ELSE action.time + DeltaTime

---------------------------------------------------------------------------
(* The sequencer.  Each function of the script is an operator from the     *)
(* state before the call to the state after it.                            *)

NoAction == [set |-> FALSE, loop |-> FALSE, time |-> 0]

\* No request was made while the queue in flight was busy.
NoBusy == [last |-> NoGait, dropped |-> FALSE]

NoTransition ==
    [before |-> NoGait, from |-> NoGait, target |-> NoGait, path |-> <<>>,
     log |-> <<>>, busy |-> NoBusy, ready |-> FALSE]

\* ev: the operation (op, arg), the local time the mixer update reached in a
\* frame (at), the targets whose queue was set up (starts), the calls of
\* playAnimation (plays), whether a queue drained and which (drained, done),
\* and whether a path was missing (nopath).
NoEvent ==
    [op |-> "init", arg |-> NoGait, at |-> 0, starts |-> <<>>, plays |-> <<>>,
     drained |-> FALSE, done |-> NoTransition, nopath |-> FALSE]

State ==
    [loaded |-> loaded, animations |-> animations,
     currentAction |-> currentAction, selectedAnimation |-> selectedAnimation,
     animationQueue |-> animationQueue, currentAnimIndex |-> currentAnimIndex,
     pendingTargetGait |-> pendingTargetGait,
     currentGaitState |-> currentGaitState,
     isTransitioning |-> isTransitioning, waitForCycleEnd |-> waitForCycleEnd,
     ev |-> ev, hist |-> hist]

\* The state at the entry of an operation: nothing started or played yet.
Enter(op, arg) ==
    [State EXCEPT !.ev = [NoEvent EXCEPT !.op = op, !.arg = arg]]

Logged(s, entry) ==
    [s EXCEPT !.ev.plays = Append(@, entry), !.hist.log = Append(@, entry)]

\* playAnimation always taking the branch without crossfade.
playAnimation_NoFade(s, animationName, loop, crossfadeDuration) ==
    IF ~s.loaded \/ animationName \notin s.animations
    THEN Logged(s, [clip |-> animationName, loop |-> loop, fade |-> 0,
                    played |-> FALSE])
    ELSE [Logged(s, [clip |-> animationName, loop |-> loop, fade |-> 0,
                     played |-> TRUE])
            EXCEPT !.currentAction = [set |-> TRUE, loop |-> loop, time |-> 0],
                   !.selectedAnimation = animationName]

playAnimation(s, animationName, loop, crossfadeDuration) ==
    IF ~s.loaded \/ animationName \notin s.animations
    THEN Logged(s, [clip |-> animationName, loop |-> loop, fade |-> 0,
                    played |-> FALSE])
    ELSE [Logged(s, [clip |-> animationName, loop |-> loop,
                     fade |-> IF s.currentAction.set /\ crossfadeDuration > 0
                              THEN crossfadeDuration ELSE 0,
                     played |-> TRUE])
            EXCEPT !.currentAction = [set |-> TRUE, loop |-> loop, time |-> 0],
                   !.selectedAnimation = animationName]

RECURSIVE playNextInQueue(_)
RECURSIVE startTransitionToGait(_, _)

\* playNextInQueue testing for the last element after the increment.
playNextInQueue_LateLast(s) ==
    IF s.currentAnimIndex >= Len(s.animationQueue)
    THEN LET gait == getCurrentGait(s.selectedAnimation, s.currentGaitState)
             s1 == [s EXCEPT !.isTransitioning = FALSE,
                             !.currentAnimIndex = 0,
                             !.animationQueue = <<>>,
                             !.currentGaitState = gait,
                             !.ev.drained = TRUE,
                             !.ev.done = s.hist,
                             !.hist = NoTransition]
         IN  IF s1.pendingTargetGait # NoGait
             THEN startTransitionToGait(
                      [s1 EXCEPT !.pendingTargetGait = NoGait,
                                 !.waitForCycleEnd = FALSE],
                      s1.pendingTargetGait)
             ELSE s1
    ELSE LET animName == s.animationQueue[s.currentAnimIndex + 1]
             isLastInQueue == s.currentAnimIndex = Len(s.animationQueue)
         IN  [playAnimation(s, animName, isLastInQueue, CrossfadeDuration)
                 EXCEPT !.currentAnimIndex = @ + 1]

\* playNextInQueue leaving the finished queue in place.
playNextInQueue_KeepQueue(s) ==
    IF s.currentAnimIndex >= Len(s.animationQueue)
    THEN LET gait == getCurrentGait(s.selectedAnimation, s.currentGaitState)
             s1 == [s EXCEPT !.isTransitioning = FALSE,
                             !.currentAnimIndex = 0,
                             !.currentGaitState = gait,
                             !.ev.drained = TRUE,
                             !.ev.done = s.hist,
                             !.hist = NoTransition]
         IN  IF s1.pendingTargetGait # NoGait
             THEN startTransitionToGait(
                      [s1 EXCEPT !.pendingTargetGait = NoGait,
                                 !.waitForCycleEnd = FALSE],
                      s1.pendingTargetGait)
             ELSE s1
    ELSE LET animName == s.animationQueue[s.currentAnimIndex + 1]
             isLastInQueue == s.currentAnimIndex = Len(s.animationQueue) - 1
         IN  [playAnimation(s, animName, isLastInQueue, CrossfadeDuration)
                 EXCEPT !.currentAnimIndex = @ + 1]

\* playNextInQueue leaving the tracked gait as it was.
playNextInQueue_KeepsGait(s) ==
    IF s.currentAnimIndex >= Len(s.animationQueue)
    THEN LET s1 == [s EXCEPT !.isTransitioning = FALSE,
                             !.currentAnimIndex = 0,
                             !.animationQueue = <<>>,
                             !.ev.drained = TRUE,
                             !.ev.done = s.hist,
                             !.hist = NoTransition]
         IN  IF s1.pendingTargetGait # NoGait
             THEN startTransitionToGait(
                      [s1 EXCEPT !.pendingTargetGait = NoGait,
                                 !.waitForCycleEnd = FALSE],
                      s1.pendingTargetGait)
             ELSE s1
    ELSE LET animName == s.animationQueue[s.currentAnimIndex + 1]
             isLastInQueue == s.currentAnimIndex = Len(s.animationQueue) - 1
         IN  [playAnimation(s, animName, isLastInQueue, CrossfadeDuration)
                 EXCEPT !.currentAnimIndex = @ + 1]

\* playNextInQueue discarding a pending target equal to the gait reached.
playNextInQueue_DropsSameGait(s) ==
    IF s.currentAnimIndex >= Len(s.animationQueue)
    THEN LET gait == getCurrentGait(s.selectedAnimation, s.currentGaitState)
             s1 == [s EXCEPT !.isTransitioning = FALSE,
                             !.currentAnimIndex = 0,
                             !.animationQueue = <<>>,
                             !.currentGaitState = gait,
                             !.ev.drained = TRUE,
                             !.ev.done = s.hist,
                             !.hist = NoTransition]
         IN  IF s1.pendingTargetGait # NoGait /\ s1.pendingTargetGait # gait
             THEN startTransitionToGait(
                      [s1 EXCEPT !.pendingTargetGait = NoGait,
                                 !.waitForCycleEnd = FALSE],
                      s1.pendingTargetGait)
             ELSE [s1 EXCEPT !.pendingTargetGait = NoGait,
                             !.waitForCycleEnd = FALSE]
    ELSE LET animName == s.animationQueue[s.currentAnimIndex + 1]
             isLastInQueue == s.currentAnimIndex = Len(s.animationQueue) - 1
         IN  [playAnimation(s, animName, isLastInQueue, CrossfadeDuration)
                 EXCEPT !.currentAnimIndex = @ + 1]

playNextInQueue(s) ==
    IF s.currentAnimIndex >= Len(s.animationQueue)
    THEN LET gait == getCurrentGait(s.selectedAnimation, s.currentGaitState)
             s1 == [s EXCEPT !.isTransitioning = FALSE,
                             !.currentAnimIndex = 0,
                             !.animationQueue = <<>>,
                             !.currentGaitState = gait,
                             !.ev.drained = TRUE,
                             !.ev.done = s.hist,
                             !.hist = NoTransition]
         IN  IF s1.pendingTargetGait # NoGait
             THEN startTransitionToGait(
                      [s1 EXCEPT !.pendingTargetGait = NoGait,
                                 !.waitForCycleEnd = FALSE],
                      s1.pendingTargetGait)
             ELSE s1
    ELSE LET animName == s.animationQueue[s.currentAnimIndex + 1]
             isLastInQueue == s.currentAnimIndex = Len(s.animationQueue) - 1
         IN  [playAnimation(s, animName, isLastInQueue, CrossfadeDuration)
                 EXCEPT !.currentAnimIndex = @ + 1]

\* startTransitionToGait recording the target as the current gait at once.
startTransitionToGait_TracksTarget(s, targetGait) ==
    LET currentGait == getCurrentGait(s.selectedAnimation, s.currentGaitState)
        transitionPath == findTransitionPath(currentGait, targetGait)
    IN  IF Len(transitionPath) = 0
        THEN [s EXCEPT !.ev.nopath = TRUE]
        ELSE playNextInQueue(
                 [s EXCEPT !.animationQueue = transitionPath,
                           !.currentAnimIndex = 0,
                           !.isTransitioning = TRUE,
                           !.currentGaitState = targetGait,
                           !.ev.starts = Append(@, targetGait),
                           !.hist = [before |-> s.currentGaitState,
                                     from |-> currentGait,
                                     target |-> targetGait,
                                     path |-> transitionPath,
                                     log |-> <<>>, busy |-> NoBusy,
                                     ready |-> s.loaded]])

\* startTransitionToGait testing for the empty path after setting up the
\* queue.
startTransitionToGait_LateCheck(s, targetGait) ==
    LET currentGait == getCurrentGait(s.selectedAnimation, s.currentGaitState)
        transitionPath == findTransitionPath(currentGait, targetGait)
        s1 == [s EXCEPT !.animationQueue = transitionPath,
                        !.currentAnimIndex = 0,
                        !.isTransitioning = TRUE]
    IN  IF Len(transitionPath) = 0
        THEN [s1 EXCEPT !.ev.nopath = TRUE]
        ELSE playNextInQueue(
                 [s1 EXCEPT !.ev.starts = Append(@, targetGait),
                            !.hist = [before |-> s.currentGaitState,
                                      from |-> currentGait,
                                      target |-> targetGait,
                                      path |-> transitionPath,
                                      log |-> <<>>, busy |-> NoBusy,
                                      ready |-> s.loaded]])

startTransitionToGait(s, targetGait) ==
    LET currentGait == getCurrentGait(s.selectedAnimation, s.currentGaitState)
        transitionPath == findTransitionPath(currentGait, targetGait)
    IN  IF Len(transitionPath) = 0
        THEN [s EXCEPT !.ev.nopath = TRUE]
        ELSE playNextInQueue(
                 [s EXCEPT !.animationQueue = transitionPath,
                           !.currentAnimIndex = 0,
                           !.isTransitioning = TRUE,
                           !.ev.starts = Append(@, targetGait),
                           !.hist = [before |-> s.currentGaitState,
                                     from |-> currentGait,
                                     target |-> targetGait,
                                     path |-> transitionPath,
                                     log |-> <<>>, busy |-> NoBusy,
                                     ready |-> s.loaded]])

\* The requests made while the transition in flight was busy: the last one,
\* and whether an earlier one asked for another gait than its successor.
Remember(busy, targetGait) ==
    [last |-> targetGait,
     dropped |-> busy.dropped \/ busy.last \notin {NoGait, targetGait}]

\* playTransitionTo keeping the first pending target while busy.
playTransitionTo_KeepFirst(s, targetGait) ==
    LET currentGait == getCurrentGait(s.selectedAnimation, s.currentGaitState)
    IN  IF currentGait = targetGait /\ ~s.isTransitioning
        THEN s
        ELSE IF s.isTransitioning
        THEN [s EXCEPT !.pendingTargetGait =
                          IF @ = NoGait THEN targetGait ELSE @,
                       !.hist.busy = Remember(@, targetGait)]
        ELSE IF /\ s.selectedAnimation \in s.animations
                /\ s.currentAction.set
                /\ s.currentAction.loop
        THEN [s EXCEPT !.pendingTargetGait = targetGait,
                       !.waitForCycleEnd = TRUE]
        ELSE [startTransitionToGait(s, targetGait)
                 EXCEPT !.waitForCycleEnd = FALSE]

\* playTransitionTo without the already-in-target-gait return.
playTransitionTo_NoSameGaitCheck(s, targetGait) ==
    IF s.isTransitioning
    THEN [s EXCEPT !.pendingTargetGait = targetGait,
                   !.hist.busy = Remember(@, targetGait)]
    ELSE IF /\ s.selectedAnimation \in s.animations
            /\ s.currentAction.set
            /\ s.currentAction.loop
    THEN [s EXCEPT !.pendingTargetGait = targetGait,
                   !.waitForCycleEnd = TRUE]
    ELSE [startTransitionToGait(s, targetGait)
             EXCEPT !.waitForCycleEnd = FALSE]

\* playTransitionTo raising the wait flag in the busy branch as well.
playTransitionTo_BusyWaits(s, targetGait) ==
    LET currentGait == getCurrentGait(s.selectedAnimation, s.currentGaitState)
    IN  IF currentGait = targetGait /\ ~s.isTransitioning
        THEN s
        ELSE IF s.isTransitioning
        THEN [s EXCEPT !.pendingTargetGait = targetGait,
                       !.waitForCycleEnd = TRUE,
                       !.hist.busy = Remember(@, targetGait)]
        ELSE IF /\ s.selectedAnimation \in s.animations
                /\ s.currentAction.set
                /\ s.currentAction.loop
        THEN [s EXCEPT !.pendingTargetGait = targetGait,
                       !.waitForCycleEnd = TRUE]
        ELSE [startTransitionToGait(s, targetGait)
                 EXCEPT !.waitForCycleEnd = FALSE]

\* playTransitionTo recording the deferred target without the wait flag.
playTransitionTo_NoWait(s, targetGait) ==
    LET currentGait == getCurrentGait(s.selectedAnimation, s.currentGaitState)
    IN  IF currentGait = targetGait /\ ~s.isTransitioning
        THEN s
        ELSE IF s.isTransitioning
        THEN [s EXCEPT !.pendingTargetGait = targetGait,
                       !.hist.busy = Remember(@, targetGait)]
        ELSE IF /\ s.selectedAnimation \in s.animations
                /\ s.currentAction.set
                /\ s.currentAction.loop
        THEN [s EXCEPT !.pendingTargetGait = targetGait]
        ELSE [startTransitionToGait(s, targetGait)
                 EXCEPT !.waitForCycleEnd = FALSE]

\* playTransitionTo cancelling the deferred target on a request for the
\* current gait.
playTransitionTo_SameGaitCancels(s, targetGait) ==
    LET currentGait == getCurrentGait(s.selectedAnimation, s.currentGaitState)
    IN  IF currentGait = targetGait /\ ~s.isTransitioning
        THEN [s EXCEPT !.pendingTargetGait = NoGait,
                       !.waitForCycleEnd = FALSE]
        ELSE IF s.isTransitioning
        THEN [s EXCEPT !.pendingTargetGait = targetGait,
                       !.hist.busy = Remember(@, targetGait)]
        ELSE IF /\ s.selectedAnimation \in s.animations
                /\ s.currentAction.set
                /\ s.currentAction.loop
        THEN [s EXCEPT !.pendingTargetGait = targetGait,
                       !.waitForCycleEnd = TRUE]
        ELSE [startTransitionToGait(s, targetGait)
                 EXCEPT !.waitForCycleEnd = FALSE]

playTransitionTo(s, targetGait) ==
    LET currentGait == getCurrentGait(s.selectedAnimation, s.currentGaitState)
    IN  IF currentGait = targetGait /\ ~s.isTransitioning
        THEN s
        ELSE IF s.isTransitioning
        THEN [s EXCEPT !.pendingTargetGait = targetGait,
                       !.hist.busy = Remember(@, targetGait)]
        ELSE IF /\ s.selectedAnimation \in s.animations
                /\ s.currentAction.set
                /\ s.currentAction.loop
        THEN [s EXCEPT !.pendingTargetGait = targetGait,
                       !.waitForCycleEnd = TRUE]
        ELSE [startTransitionToGait(s, targetGait)
                 EXCEPT !.waitForCycleEnd = FALSE]

\* CycleEndReached with a strict comparison.
CycleEndReached_Strict(s) ==
    /\ s.waitForCycleEnd
    /\ s.currentAction.set
    /\ s.selectedAnimation # ""
    /\ s.pendingTargetGait # NoGait
    /\ s.selectedAnimation \in s.animations
    /\ s.currentAction.loop
    /\ LET duration == Duration(s.selectedAnimation)
           cycleProgress == Remainder(s.currentAction.time, duration)
           timeToEnd == Minus(duration, cycleProgress)
       IN  timeToEnd # NaN /\ timeToEnd < CycleEndWindow

\* animate, first check: the pending target waiting for the end of the cycle.
CycleEndReached(s) ==
    /\ s.waitForCycleEnd
    /\ s.currentAction.set
    /\ s.selectedAnimation # ""
    /\ s.pendingTargetGait # NoGait
    /\ s.selectedAnimation \in s.animations
    /\ s.currentAction.loop
    /\ LET duration == Duration(s.selectedAnimation)
           cycleProgress == Remainder(s.currentAction.time, duration)
           timeToEnd == Minus(duration, cycleProgress)
       IN  AtMost(timeToEnd, CycleEndWindow)

\* QueueClipEnded without the 0.05 s margin.
QueueClipEnded_NoMargin(s) ==
    /\ s.isTransitioning
    /\ s.currentAction.set
    /\ s.selectedAnimation # ""
    /\ s.selectedAnimation \in s.animations
    /\ s.currentAction.time # NaN
    /\ s.currentAction.time >= Duration(s.selectedAnimation)

\* animate, second check: the clip of the queue that is playing has ended.
QueueClipEnded(s) ==
    /\ s.isTransitioning
    /\ s.currentAction.set
    /\ s.selectedAnimation # ""
    /\ s.selectedAnimation \in s.animations
    /\ s.currentAction.time # NaN
    /\ s.currentAction.time >= Duration(s.selectedAnimation) - QueueEndMargin

\* animate leaving the wait flag set when it starts the pending target.
animate_KeepsWaiting(s) ==
    IF ~s.loaded
    THEN s
    ELSE LET s0 == IF s.currentAction.set
                   THEN LET time == UpdateTime(s.currentAction,
                                               Duration(s.selectedAnimation))
                        IN  [s EXCEPT !.currentAction.time = time,
                                      !.ev.at = time]
                   ELSE s
             s1 == IF CycleEndReached(s0)
                   THEN startTransitionToGait(
                            [s0 EXCEPT !.pendingTargetGait = NoGait],
                            s0.pendingTargetGait)
                   ELSE s0
         IN  IF QueueClipEnded(s1) THEN playNextInQueue(s1) ELSE s1

animate(s) ==
    IF ~s.loaded
    THEN s
    ELSE LET s0 == IF s.currentAction.set
                   THEN LET time == UpdateTime(s.currentAction,
                                               Duration(s.selectedAnimation))
                        IN  [s EXCEPT !.currentAction.time = time,
                                      !.ev.at = time]
                   ELSE s
             s1 == IF CycleEndReached(s0)
                   THEN startTransitionToGait(
                            [s0 EXCEPT !.pendingTargetGait = NoGait,
                                       !.waitForCycleEnd = FALSE],
                            s0.pendingTargetGait)
                   ELSE s0
         IN  IF QueueClipEnded(s1) THEN playNextInQueue(s1) ELSE s1

\* loadGLTF starting the stand clip without looping.
loadGLTF_StandOnce(s, clips) ==
    playAnimation([s EXCEPT !.loaded = TRUE, !.animations = clips],
                  "stand", FALSE, 0)

\* loadGLTF's success callback.
loadGLTF(s, clips) ==
    playAnimation([s EXCEPT !.loaded = TRUE, !.animations = clips],
                  "stand", TRUE, 0)

---------------------------------------------------------------------------
(* The walk-toggle controller (second script block)                        *)

StopWindow == 100        \* animate: timeToEnd <= 0.1
StopCrossfade == 400     \* crossfade of the clip that stops the walk

\* The clips the controller asks for.
WalkerClips == {"stand", "walk", "stand-to-walk", "Walk to stand"}

\* pendingTransition = null
NoPending == ""

\* The state of the block after construction.  fade is the crossfade of
\* the last clip played; restarted records a toggle made while a stop was
\* waiting for the end of the walk cycle.
NoWalker ==
    [loaded |-> FALSE, animations |-> {}, currentAction |-> NoAction,
     selectedAnimation |-> "", isPlaying |-> FALSE, isWalking |-> FALSE,
     isTransitioning |-> FALSE, pendingTransition |-> NoPending,
     shouldStopWalking |-> FALSE, fade |-> 0, restarted |-> FALSE]

\* playAnimation of the block: nothing without the mixer or the clip, else
\* the clip starts from time zero, crossfaded if an action was playing.
WalkerPlayAnimation(w, animationName, loop, crossfadeDuration) ==
    IF ~w.loaded \/ animationName \notin w.animations
    THEN w
    ELSE [w EXCEPT !.currentAction = [set |-> TRUE, loop |-> loop, time |-> 0],
                   !.fade = IF w.currentAction.set /\ crossfadeDuration > 0
                            THEN crossfadeDuration ELSE 0,
                   !.isPlaying = TRUE,
                   !.selectedAnimation = animationName]

\* Space, Enter or the button.
toggleWalk(w) ==
    LET wasWalking == w.isWalking
        w1 == [w EXCEPT !.isWalking = ~w.isWalking]
    IN  IF w1.isWalking
        THEN [WalkerPlayAnimation(w1, "stand-to-walk", FALSE, CrossfadeDuration)
                EXCEPT !.isTransitioning = TRUE,
                       !.pendingTransition = "walk"]
        ELSE IF wasWalking /\ w1.selectedAnimation = "walk"
        THEN [w1 EXCEPT !.shouldStopWalking = TRUE]
        ELSE [WalkerPlayAnimation(w1, "Walk to stand", FALSE, CrossfadeDuration)
                EXCEPT !.isTransitioning = TRUE,
                       !.pendingTransition = "stand"]

\* animate, first check: the walk cycle is within 0.1 s of its end.
WalkCycleEnded(w) ==
    /\ w.shouldStopWalking
    /\ w.selectedAnimation = "walk"
    /\ w.currentAction.set
    /\ "walk" \in w.animations
    /\ LET duration == Duration("walk")
           cycleProgress == Remainder(w.currentAction.time, duration)
           timeToEnd == Minus(duration, cycleProgress)
       IN  AtMost(timeToEnd, StopWindow)

\* animate, second check: the clip of the transition is within 0.05 s of
\* its end and a loop is pending.
PendingClipEnded(w) ==
    /\ w.isTransitioning
    /\ w.currentAction.set
    /\ w.selectedAnimation # ""
    /\ w.selectedAnimation \in w.animations
    /\ w.currentAction.time # NaN
    /\ w.currentAction.time >= Duration(w.selectedAnimation) - QueueEndMargin
    /\ w.pendingTransition # NoPending

\* One frame of the block: the mixer advances the action, then the two
\* checks run in this order, the second on what the first has left.
WalkerAnimate(w) ==
    IF ~w.loaded
    THEN w
    ELSE LET w1 == IF w.currentAction.set
                   THEN [w EXCEPT !.currentAction.time =
                                     UpdateTime(w.currentAction,
                                                Duration(w.selectedAnimation))]
                   ELSE w
             w2 == IF WalkCycleEnded(w1)
                   THEN [WalkerPlayAnimation(w1, "Walk to stand", FALSE,
                                             StopCrossfade)
                           EXCEPT !.isTransitioning = TRUE,
                                  !.pendingTransition = "stand",
                                  !.shouldStopWalking = FALSE]
                   ELSE w1
         IN  IF PendingClipEnded(w2)
             THEN [(IF w2.pendingTransition = "walk"
                    THEN WalkerPlayAnimation(w2, "walk", TRUE, CrossfadeDuration)
                    ELSE IF w2.pendingTransition = "stand"
                    THEN WalkerPlayAnimation(w2, "stand", TRUE, CrossfadeDuration)
                    ELSE w2)
                     EXCEPT !.isTransitioning = FALSE,
                            !.pendingTransition = NoPending]
             ELSE w2

\* loadGLTF's success callback in the block.
WalkerLoadGLTF(w, clips) ==
    WalkerPlayAnimation([w EXCEPT !.loaded = TRUE, !.animations = clips],
                        "stand", TRUE, 0)

---------------------------------------------------------------------------
(* Specification of the sequencer                                          *)

\* Clips that the loaded model may lack (one at a time).
MissingClips == {"trot_to_gallop", "gallop"}

ClipSets == {ClipNames} \cup {ClipNames \ {c} : c \in MissingClips}

PfIdle ==
    [stage |-> "off", from |-> "stand", to |-> "stand", clip |-> "",
     path |-> <<>>, endGait |-> NoGait, clipGait |-> NoGait]

Becomes(s) ==
    /\ loaded' = s.loaded
    /\ animations' = s.animations
    /\ currentAction' = s.currentAction
    /\ selectedAnimation' = s.selectedAnimation
    /\ animationQueue' = s.animationQueue
    /\ currentAnimIndex' = s.currentAnimIndex
    /\ pendingTargetGait' = s.pendingTargetGait
    /\ currentGaitState' = s.currentGaitState
    /\ isTransitioning' = s.isTransitioning
    /\ waitForCycleEnd' = s.waitForCycleEnd
    /\ ev' = s.ev
    /\ hist' = s.hist

SequencerInit ==
    /\ loaded = FALSE
    /\ animations = {}
    /\ currentAction = NoAction
    /\ selectedAnimation = ""
    /\ animationQueue = <<>>
    /\ currentAnimIndex = 0
    /\ pendingTargetGait = NoGait
    /\ currentGaitState = "stand"
    /\ isTransitioning = FALSE
    /\ waitForCycleEnd = FALSE
    /\ ev = NoEvent
    /\ hist = NoTransition

NoLive == [left |-> 0, want |-> NoGait, frame |-> 0]

\* The authored graph and clips of ordinary length.
AuthoredData == graph = transitionGraph /\ odd = NoOdd

Init ==
    /\ SequencerInit
    /\ pf = PfIdle
    /\ AuthoredData
    /\ live = NoLive
    /\ walker = NoWalker

\* The GLTF loader calls back with the model's clips.
Load ==
    /\ ~loaded
    /\ \E clips \in ClipSets : Becomes(loadGLTF(Enter("load", NoGait), clips))
    /\ UNCHANGED <<pf, graph, odd, live, walker>>

\* A gait button is pressed.
Request ==
    /\ \E targetGait \in Gaits :
          Becomes(playTransitionTo(Enter("request", targetGait), targetGait))
    /\ UNCHANGED <<pf, graph, odd, live, walker>>

\* One animation frame.
Tick ==
    /\ Becomes(animate(Enter("tick", NoGait)))
    /\ UNCHANGED <<pf, graph, odd, live, walker>>

Next == Load \/ Request \/ Tick

Spec == Init /\ [][Next]_vars

---------------------------------------------------------------------------
(* Specification of the pure functions: every pair of gaits and every clip *)
(* name is an input; findTransitionPath and getCurrentGait are applied.    *)

PfInputs ==
    [stage : {"input"}, from : Gaits, to : Gaits,
     clip : ClipNames \cup {"idle"},
     path : {<<>>}, endGait : {NoGait}, clipGait : {NoGait}]

PathInit ==
    /\ SequencerInit
    /\ pf \in PfInputs
    /\ AuthoredData
    /\ live = NoLive
    /\ walker = NoWalker

seqvars == <<loaded, animations, currentAction, selectedAnimation,
             animationQueue, currentAnimIndex, pendingTargetGait,
             currentGaitState, isTransitioning, waitForCycleEnd, ev, hist>>

PfFindPath ==
    /\ pf.stage = "input"
    /\ pf' = [pf EXCEPT !.stage = "path",
                        !.path = findTransitionPath(pf.from, pf.to)]
    /\ UNCHANGED <<seqvars, graph, odd, live, walker>>

\* getCurrentGait on the last clip of the path and on the input clip, the
\* tracked gait being pf.from.
PfDerive ==
    /\ pf.stage = "path"
    /\ pf' = [pf EXCEPT !.stage = "gait",
                        !.endGait = IF Len(pf.path) = 0 THEN NoGait
                                    ELSE getCurrentGait(pf.path[Len(pf.path)],
                                                        pf.from),
                        !.clipGait = getCurrentGait(pf.clip, pf.from)]
    /\ UNCHANGED <<seqvars, graph, odd, live, walker>>

PathNext == PfFindPath \/ PfDerive

PathSpec == PathInit /\ [][PathNext]_vars

---------------------------------------------------------------------------
(* Specification of the path finder on other graphs.  The graph is data of *)
(* the script; to see how the search chooses between routes it is also run *)
(* on the authored graph with one entry emptied, which leaves two routes   *)
(* of the same number of edges (TieGraph, DeepTieGraph) or no route        *)
(* (SparseGraph).                                                          *)

\* walk -> gallop has to go through stand or through trot.
TieGraph == [transitionGraph EXCEPT !["walk"]["gallop"] = <<>>]

\* gallop -> sit has to go through walk or trot, then stand.
DeepTieGraph == [transitionGraph EXCEPT !["gallop"]["stand"] = <<>>]

\* No entry leads to reach.
SparseGraph == [transitionGraph EXCEPT !["sit"]["reach"] = <<>>]

SearchGraphs == {transitionGraph, TieGraph, DeepTieGraph, SparseGraph}

GraphInit ==
    /\ SequencerInit
    /\ pf \in PfInputs
    /\ graph \in SearchGraphs
    /\ odd = NoOdd
    /\ live = NoLive
    /\ walker = NoWalker

GraphSpec == GraphInit /\ [][PathNext]_vars

---------------------------------------------------------------------------
(* Specification of the sequencer with a bounded number of requests, all   *)
(* clips present, and frames that keep coming: animate re-arms itself with *)
(* requestAnimationFrame on every call, and the loader calls back once.    *)

MaxRequests == 2

LiveInit ==
    /\ SequencerInit
    /\ pf = PfIdle
    /\ AuthoredData
    /\ live = [left |-> MaxRequests, want |-> NoGait, frame |-> 0]
    /\ walker = NoWalker

LiveLoad ==
    /\ ~loaded
    /\ Becomes(loadGLTF(Enter("load", NoGait), ClipNames))
    /\ UNCHANGED <<pf, graph, odd, live, walker>>

\* A click on a gait button.  live.want is the gait asked for if the request
\* was made while transitioning or for another gait than the current one.
LiveRequest ==
    /\ live.left > 0
    /\ \E targetGait \in Gaits :
          /\ Becomes(playTransitionTo(Enter("request", targetGait), targetGait))
          /\ live' = [live EXCEPT
                         !.left = @ - 1,
                         !.want = IF isTransitioning
                                     \/ targetGait # currentGaitState
                                  THEN targetGait ELSE NoGait]
    /\ UNCHANGED <<pf, graph, odd, walker>>

\* animate, counted.
LiveTick ==
    /\ Becomes(animate(Enter("tick", NoGait)))
    /\ live' = [live EXCEPT !.frame = 1 - @]
    /\ UNCHANGED <<pf, graph, odd, walker>>

LiveNext == LiveLoad \/ LiveRequest \/ LiveTick

\* The step of live taken by LiveTick and by no other action; a frame is
\* always possible.
FrameRuns == live' = [live EXCEPT !.frame = 1 - @]

\* Frames keep coming and the loader calls back.
LiveSpec ==
    /\ LiveInit
    /\ [][LiveNext]_vars
    /\ WF_live(FrameRuns)
    /\ WF_vars(LiveLoad)

---------------------------------------------------------------------------
(* Specification of the sequencer on a graph in which a gait cannot be     *)
(* reached: findTransitionPath returns the empty path for it.              *)

SparseInit ==
    /\ SequencerInit
    /\ pf = PfIdle
    /\ graph = SparseGraph
    /\ odd = NoOdd
    /\ live = NoLive
    /\ walker = NoWalker

SparseSpec == SparseInit /\ [][Next]_vars

---------------------------------------------------------------------------
(* Specification of the sequencer on a model one clip of which has a       *)
(* degenerate length: zero, or not longer than the 0.05 s margin.          *)

OddClips ==
    {[clip |-> "stand", duration |-> 0],
     [clip |-> "walk", duration |-> 0],
     [clip |-> "stand_to_walk", duration |-> 2 * DeltaTime]}

OddInit ==
    /\ SequencerInit
    /\ pf = PfIdle
    /\ graph = transitionGraph
    /\ odd \in OddClips
    /\ live = NoLive
    /\ walker = NoWalker

OddSpec == OddInit /\ [][Next]_vars

---------------------------------------------------------------------------
(* Properties of the sequencer (Spec)                                      *)

AllClipsLoaded == loaded /\ animations = ClipNames

\* What the player was asked for, without the crossfade.
Handed(log) ==
    [i \in 1..Len(log) |->
        [clip |-> log[i].clip, loop |-> log[i].loop, played |-> log[i].played]]

\* The first n clips of a path, each played, only the path's last one looping.
InOrder(path, n) ==
    [i \in 1..n |-> [clip |-> path[i], loop |-> (i = Len(path)), played |-> TRUE]]

SomeClipMissing(log) == \E i \in 1..Len(log) : ~log[i].played

\* C1 (part): when a queue drains after requests were made while it was in
\* flight, exactly one transition is started, toward the last of them.
LastRequestStartsAtDrain ==
    (ev.drained /\ ev.done.busy.last # NoGait) =>
        /\ ev.starts = <<ev.done.busy.last>>
        /\ isTransitioning
        /\ hist.target = ev.done.busy.last
        /\ animationQueue = findTransitionPath(currentGaitState, ev.done.busy.last)

\* C1 (part): while a queue is in flight a request is only recorded as the
\* pending target, and no transition is started by any step but the drain.
BusyStartsNothing ==
    isTransitioning =>
        /\ ev'.op = "request" => pendingTargetGait' = ev'.arg
        /\ ~ev'.drained => ev'.starts = <<>>

\* C1: single-pending law: of two requests A then B made while a transition is
\* in flight, only the transition toward B is started when the queue drains;
\* none toward A is started, however the requests interleave with frames.
SinglePendingLaw == []LastRequestStartsAtDrain /\ [][BusyStartsNothing]_vars

SinglePendingWitness ==
    /\ loaded
    /\ ev.drained
    /\ ev.done.busy.dropped
    /\ ev.done.busy.last # ev.done.target
    /\ ev.starts = <<ev.done.busy.last>>
    /\ selectedAnimation = animationQueue[1]

\* C2: with all clips present, the clips handed to the player during a
\* transition are the elements of findPath(currentGait, target) in order,
\* each once, the last one looping and no other, and when the queue drains
\* currentGait is the target.
QueuePlayedInOrder ==
    AllClipsLoaded =>
        /\ (isTransitioning /\ hist.ready) =>
              /\ animationQueue = findTransitionPath(hist.before, hist.target)
              /\ currentAnimIndex \in 1..Len(animationQueue)
              /\ Handed(hist.log) = InOrder(animationQueue, currentAnimIndex)
        /\ (ev.drained /\ ev.done.ready) =>
              /\ ev.done.path = findTransitionPath(ev.done.before, ev.done.target)
              /\ Handed(ev.done.log) = InOrder(ev.done.path, Len(ev.done.path))
              /\ currentGaitState = ev.done.target

GallopFromStandWitness ==
    /\ AllClipsLoaded
    /\ ev.drained
    /\ ev.done.before = "stand"
    /\ ev.done.target = "gallop"
    /\ Handed(ev.done.log) =
          <<[clip |-> "stand_to_trot", loop |-> FALSE, played |-> TRUE],
            [clip |-> "trot_to_gallop", loop |-> FALSE, played |-> TRUE],
            [clip |-> "gallop", loop |-> TRUE, played |-> TRUE]>>
    /\ currentGaitState = "gallop"
    /\ ~isTransitioning

IdleInLoop ==
    /\ ~isTransitioning
    /\ currentAction.set
    /\ currentAction.loop
    /\ selectedAnimation \in animations

\* C3 (part): a request for another gait made while idle in a loop only sets
\* the pending target and the wait flag.
RequestInLoopDefers ==
    (IdleInLoop /\ ev'.op = "request" /\ ev'.arg # currentGaitState) =>
        /\ pendingTargetGait' = ev'.arg
        /\ waitForCycleEnd' = TRUE
        /\ ev'.starts = <<>>
        /\ ev'.plays = <<>>
        /\ UNCHANGED <<animationQueue, currentAnimIndex, isTransitioning,
                       currentGaitState, selectedAnimation, currentAction>>

\* C3 (part): a frame starts the deferred transition exactly when the time
\* left in the cycle is at most 0.3.
FrameStartsAtCycleEnd ==
    (waitForCycleEnd /\ pendingTargetGait # NoGait /\ ev'.op = "tick") =>
        LET duration == Duration(selectedAnimation)
        IN  IF duration - (ev'.at % duration) <= 300
            THEN ev'.starts = <<pendingTargetGait>>
            ELSE /\ ev'.starts = <<>>
                 /\ ev'.plays = <<>>
                 /\ UNCHANGED <<pendingTargetGait, waitForCycleEnd,
                                selectedAnimation, isTransitioning>>

\* C3: loop-boundary deferral: a request for another gait made while idle in
\* a loop starts nothing by itself; the transition is started by the first
\* frame at which duration - (elapsed mod duration) <= 0.3 and by no frame at
\* which that value is larger.
LoopBoundaryDeferral == [][RequestInLoopDefers /\ FrameStartsAtCycleEnd]_vars

\* A frame of the stand loop started the deferred transition, and the frame
\* before it was still more than 0.3 away from the end of the cycle.
DeferralWitness ==
    /\ ev.op = "tick"
    /\ ~ev.drained
    /\ Len(ev.starts) = 1
    /\ hist.before = "stand"
    /\ Duration("stand") - ev.at <= 300
    /\ Duration("stand") - (ev.at - DeltaTime) > 300

\* C4: idempotence: a request for the current gait made while not
\* transitioning starts no queue and changes no clip.
SameGaitRequestIsNoOp ==
    [][(~isTransitioning /\ ev'.op = "request" /\ ev'.arg = currentGaitState) =>
          /\ ev'.starts = <<>>
          /\ ev'.plays = <<>>
          /\ UNCHANGED <<animationQueue, currentAnimIndex, isTransitioning,
                         currentGaitState, selectedAnimation, currentAction>>]_vars

SameGaitRequestWitness ==
    /\ loaded
    /\ ev.op = "request"
    /\ ev.arg = currentGaitState
    /\ ev.arg = "walk"
    /\ ev.starts = <<>>
    /\ ~isTransitioning
    /\ selectedAnimation = "walk"

\* C9 (as claimed): when a clip of the queue is not among the loaded clips the
\* queue is aborted, the sequencer is idle again, and currentGait is what it
\* was before the transition began.
MissingClipFallsBack ==
    /\ (isTransitioning /\ hist.ready) => ~SomeClipMissing(hist.log)
    /\ (ev.drained /\ ev.done.ready /\ SomeClipMissing(ev.done.log)) =>
          currentGaitState = ev.done.before

\* C10: a request made while transitioning changes only the pending target.
BusyRequestOnlySetsPending ==
    [][(isTransitioning /\ ev'.op = "request") =>
          /\ pendingTargetGait' = ev'.arg
          /\ ev'.plays = <<>>
          /\ UNCHANGED <<animationQueue, currentAnimIndex, selectedAnimation,
                         currentAction, isTransitioning, waitForCycleEnd,
                         currentGaitState>>]_vars

BusyRequestWitness ==
    /\ loaded
    /\ ev.op = "request"
    /\ ev.starts = <<>>
    /\ isTransitioning
    /\ pendingTargetGait = ev.arg
    /\ currentAnimIndex < Len(animationQueue)
    /\ ~currentAction.loop

\* C16 (as claimed): a request made before the clips are loaded is either
\* rejected, leaving the state unchanged, or kept so that after the load every
\* clip of its path is played, in order; no clip of its path is skipped.
PreLoadRequestKeptWhole ==
    /\ (~loaded /\ ev.op = "request") =>
           \/ ~isTransitioning /\ pendingTargetGait = NoGait
           \/ isTransitioning \/ pendingTargetGait = ev.arg
    /\ (ev.drained /\ ~ev.done.ready /\ AllClipsLoaded) =>
           Handed(ev.done.log) = InOrder(ev.done.path, Len(ev.done.path))

\* C17: currentGait changes only in the frame in which the queue cursor has
\* exhausted the queue (the drain); a request, the start of a transition and
\* every frame that plays a next clip or does nothing leave it unchanged.
GaitChangesOnlyAtDrain ==
    [][currentGaitState' # currentGaitState =>
          /\ ev'.op = "tick"
          /\ ev'.drained
          /\ currentAnimIndex >= Len(animationQueue)
          /\ isTransitioning]_vars

GaitChangeWitness ==
    /\ ev.op = "tick"
    /\ ev.drained
    /\ ev.done.before = "stand"
    /\ currentGaitState = "walk"

\* C18: in every state between two operations, isTransitioning is true
\* exactly when the queue is non-empty.
TransitioningIffQueued == isTransitioning <=> Len(animationQueue) > 0

QueuedWitness ==
    /\ loaded
    /\ isTransitioning
    /\ Len(animationQueue) = 3
    /\ currentAnimIndex = 2

\* C19: every clip the sequencer plays is blended in with a crossfade of
\* 0.3 s, except the first clip ever played, the stand loop started when the
\* model is loaded, which starts without crossfade.
CrossfadeOnEveryChange ==
    [][/\ \A i \in 1..Len(ev'.plays) :
             ev'.plays[i].played =>
                 ev'.plays[i].fade =
                     IF /\ ~currentAction.set
                        /\ \A j \in 1..(i - 1) : ~ev'.plays[j].played
                     THEN 0
                     ELSE 300
       /\ (~currentAction.set /\ currentAction'.set) =>
             /\ ev'.op = "load"
             /\ ev'.plays = <<[clip |-> "stand", loop |-> TRUE, fade |-> 0,
                               played |-> TRUE]>>]_vars

CrossfadeWitness ==
    /\ ev.op = "tick"
    /\ Len(ev.plays) = 1
    /\ ev.plays[1] = [clip |-> "trot", loop |-> TRUE, fade |-> 300,
                      played |-> TRUE]

RECURSIVE AuthoredReach(_)
\* The gaits reachable from a set of gaits through non-empty authored entries.
AuthoredReach(set) ==
    LET next == set \cup {t \in Gaits :
                             \E f \in set : Len(transitionGraph[f][t]) > 0}
    IN  IF next = set THEN set ELSE AuthoredReach(next)

AuthoredGraphConnected == \A f \in Gaits : AuthoredReach({f}) = Gaits

\* C22: in the authored graph every gait is reachable from every other one,
\* and in no reachable state of the sequencer has startTransition obtained
\* an empty path.
NoPathNeverOccurs ==
    /\ AuthoredGraphConnected
    /\ ~ev.nopath
    /\ ev.starts # <<>> => Len(animationQueue) > 0

\* A transition between two gaits without a direct entry has been started.
SearchedStartWitness ==
    /\ ev.starts = <<"reach">>
    /\ hist.from = "gallop"
    /\ Len(transitionGraph["gallop"]["reach"]) = 0
    /\ animationQueue = <<"gallop_to_trot", "trot_to_stand", "stand_to_sit",
                          "sit_to_reach", "reach">>

\* C23: once the clips are loaded and all clips exist, whenever the sequencer
\* is not transitioning the playing clip is a loop, so that no request made
\* then starts a transition at once.
SettledIsLoop ==
    /\ (AllClipsLoaded /\ ~isTransitioning) =>
           /\ currentAction.set
           /\ currentAction.loop
           /\ selectedAnimation \in Gaits
    /\ (AllClipsLoaded /\ ev.op = "request") => ev.starts = <<>>

SettledRequestWitness ==
    /\ AllClipsLoaded
    /\ ~isTransitioning
    /\ selectedAnimation = "gallop"
    /\ currentAction.loop
    /\ ev.op = "request"
    /\ ev.arg = "sit"
    /\ pendingTargetGait = "sit"

\* C24 (as claimed): when the clips become available the sequencer starts
\* the stand clip in loop mode and is in the state currentGait = stand, empty
\* queue, cursor 0, not transitioning, no pending target, not waiting.
LoadGivesInitialState ==
    ev.op = "load" =>
        /\ selectedAnimation = "stand"
        /\ currentAction = [set |-> TRUE, loop |-> TRUE, time |-> 0]
        /\ currentGaitState = "stand"
        /\ animationQueue = <<>>
        /\ currentAnimIndex = 0
        /\ ~isTransitioning
        /\ pendingTargetGait = NoGait
        /\ ~waitForCycleEnd

\* C25: waitForLoopEnd implies a pending target and no transition in flight.
WaitImpliesPendingIdle ==
    waitForCycleEnd => (pendingTargetGait # NoGait /\ ~isTransitioning)

WaitingWitness ==
    /\ waitForCycleEnd
    /\ pendingTargetGait = "trot"
    /\ currentGaitState = "walk"
    /\ ev.op = "tick"

\* C26: no stranded request: a pending target is held only while a
\* transition is in flight or while waiting for the end of the loop.
PendingIsNotStranded ==
    pendingTargetGait # NoGait => (isTransitioning \/ waitForCycleEnd)

PendingInFlightWitness ==
    /\ pendingTargetGait = "sit"
    /\ isTransitioning
    /\ ~waitForCycleEnd
    /\ loaded

\* C27: a request for the current gait made while idle with a pending target
\* waiting for the end of the loop leaves the pending target and the wait
\* flag as they are; a frame either starts that pending target or leaves it
\* waiting.
SameGaitRequestKeepsPending ==
    [][/\ (/\ ev'.op = "request"
           /\ ev'.arg = currentGaitState
           /\ ~isTransitioning
           /\ waitForCycleEnd
           /\ pendingTargetGait # NoGait) =>
             /\ UNCHANGED <<pendingTargetGait, waitForCycleEnd>>
             /\ ev'.starts = <<>>
       /\ (ev'.op = "tick" /\ waitForCycleEnd /\ pendingTargetGait # NoGait) =>
             \/ ev'.starts # <<>> /\ ev'.starts[1] = pendingTargetGait
             \/ UNCHANGED <<pendingTargetGait, waitForCycleEnd>>]_vars

SameGaitWhileWaitingWitness ==
    /\ ev.op = "request"
    /\ ev.arg = "walk"
    /\ currentGaitState = "walk"
    /\ ~isTransitioning
    /\ waitForCycleEnd
    /\ pendingTargetGait = "stand"

\* C28 (as claimed): with all clips present, when not transitioning the
\* queue is empty and the cursor is 0; when transitioning the cursor is
\* between 1 and the length of the queue and the playing clip is the queue
\* element the cursor has just passed.
CursorTracksPlayingClip ==
    AllClipsLoaded =>
        IF isTransitioning
        THEN /\ 1 <= currentAnimIndex
             /\ currentAnimIndex <= Len(animationQueue)
             /\ selectedAnimation = animationQueue[currentAnimIndex]
        ELSE animationQueue = <<>> /\ currentAnimIndex = 0

\* C29: whenever the sequencer is not transitioning the gait derived from
\* the selected clip equals the tracked gait, so that every path is computed
\* from the tracked gait.
DerivedGaitIsTracked ==
    /\ ~isTransitioning =>
           getCurrentGait(selectedAnimation, currentGaitState) = currentGaitState
    /\ isTransitioning => hist.from = hist.before

DerivedTrackedWitness ==
    /\ ~isTransitioning
    /\ selectedAnimation = "reach"
    /\ currentGaitState = "reach"
    /\ ev.drained

\* C30: when a queue drains and the pending target is the gait just settled
\* into, the sequencer starts the one-clip queue of that gait's loop, played
\* looping with a crossfade of 0.3 s, and is transitioning again until that
\* clip reaches duration - 0.05; the request is not discarded.
SelfLoopAtDrain ==
    [][/\ (ev'.op = "tick" /\ ev'.drained
             /\ pendingTargetGait = currentGaitState') =>
             /\ animationQueue' = <<pendingTargetGait>>
             /\ currentAnimIndex' = 1
             /\ isTransitioning'
             /\ pendingTargetGait' = NoGait
             /\ ev'.starts = <<pendingTargetGait>>
             /\ ev'.plays =
                   <<[clip |-> pendingTargetGait, loop |-> TRUE,
                      fade |-> IF pendingTargetGait \in animations
                               THEN 300 ELSE 0,
                      played |-> pendingTargetGait \in animations]>>
       /\ (/\ ev'.op = "tick"
           /\ isTransitioning
           /\ animationQueue = <<currentGaitState>>
           /\ currentAnimIndex = 1
           /\ selectedAnimation = currentGaitState) =>
             /\ ev'.drained <=> ev'.at >= Duration(selectedAnimation) - 50
             /\ ~ev'.drained => (isTransitioning' /\ UNCHANGED animationQueue)]_vars

SelfLoopWitness ==
    /\ ev.op = "tick"
    /\ ev.drained
    /\ ev.starts = <<"walk">>
    /\ currentGaitState = "walk"
    /\ animationQueue = <<"walk">>
    /\ isTransitioning
    /\ selectedAnimation = "walk"

---------------------------------------------------------------------------
(* Properties of the sequencer on degenerate data (SparseSpec, OddSpec)    *)

Idle == ~isTransitioning /\ pendingTargetGait = NoGait /\ ~waitForCycleEnd

\* C11: with all clips present and of positive length and frames that keep
\* coming, if the last request made asked for gait T while a transition was
\* in flight or while T was not the current gait, the sequencer eventually
\* becomes idle (not transitioning, no pending target, not waiting for the
\* end of a loop) with currentGait = T, and stays so.
LastRequestIsReached ==
    <>[](live.want # NoGait => (Idle /\ currentGaitState = live.want))

LastRequestReachedWitness ==
    /\ live.left = 0
    /\ live.want = "reach"
    /\ ev.op = "tick"
    /\ ev.drained
    /\ ev.done.before = "trot"
    /\ Idle
    /\ currentGaitState = "reach"

\* C12: when findPath returns the empty path, startTransition changes none
\* of the queue, the cursor, isTransitioning, currentGait and the playing
\* clip: they are as they were when it was called (as the request or the
\* frame found them, or as the drain that called it left them); the request
\* is dropped and the sequencer is left idle.
NoPathChangesNothing ==
    [][ev'.nopath =>
          /\ ev'.starts = <<>>
          /\ ev'.plays = <<>>
          /\ IF ev'.drained
             THEN /\ animationQueue' = <<>>
                  /\ currentAnimIndex' = 0
                  /\ currentGaitState' =
                         getCurrentGait(selectedAnimation, currentGaitState)
             ELSE UNCHANGED <<animationQueue, currentAnimIndex,
                              isTransitioning, currentGaitState>>
          /\ selectedAnimation' = selectedAnimation
          /\ currentAction'.set = currentAction.set
          /\ currentAction'.loop = currentAction.loop
          /\ ~isTransitioning'
          /\ pendingTargetGait' = NoGait
          /\ ~waitForCycleEnd']_vars

NoPathWitness ==
    /\ ev.nopath
    /\ ev.op = "tick"
    /\ ev.drained
    /\ loaded
    /\ selectedAnimation = "sit"
    /\ currentGaitState = "sit"

\* C13 (as claimed): when the playing clip has duration zero a frame never
\* stalls: a pending target waiting for the end of the loop is started in
\* that frame, and a queue in flight moves to its next element in that frame.
ZeroDurationNeverStalls ==
    [][(/\ ev'.op = "tick"
        /\ loaded
        /\ currentAction.set
        /\ selectedAnimation \in animations
        /\ Duration(selectedAnimation) = 0) =>
          /\ (waitForCycleEnd /\ pendingTargetGait # NoGait
                 /\ currentAction.loop) =>
                ev'.starts = <<pendingTargetGait>>
          /\ isTransitioning =>
                (currentAnimIndex' = currentAnimIndex + 1 \/ ev'.drained)]_vars

\* C15 (as claimed): in one frame at most one of the two checks of animate
\* acts: when the first starts a transition the second is not applied, so
\* that at most one clip is started per frame, whatever the clips' lengths.
OneClipPerFrame ==
    ev.op = "tick" =>
        /\ Cardinality({i \in 1..Len(ev.plays) : ev.plays[i].played}) <= 1
        /\ (ev.starts # <<>> /\ ~ev.drained) => currentAnimIndex = 1

---------------------------------------------------------------------------
(* Properties of the path finder (PathSpec)                                *)

\* C5: direct-edge priority: where the graph has a non-empty entry, findPath
\* returns exactly that entry.
DirectEdgePriority ==
    (pf.stage # "input" /\ Len(transitionGraph[pf.from][pf.to]) > 0) =>
        pf.path = transitionGraph[pf.from][pf.to]

DirectEdgeWitness ==
    /\ pf.stage = "path"
    /\ pf.from = "reach"
    /\ pf.to = "gallop"
    /\ Len(pf.path) = 5

\* The route the graph's comments name for a pair without a direct entry:
\* through stand, then sit, then (for reach) reach.
CommentedRoute(from, to) ==
    (IF from = "stand" THEN <<"stand">> ELSE <<from, "stand">>)
        \o (IF to = "sit" THEN <<"sit">> ELSE <<"sit", "reach">>)

RECURSIVE RouteClips(_)
\* The direct entries along a route, without the loop clip that closes every
\* entry but the last.
RouteClips(route) ==
    LET entry == graph[route[1]][route[2]]
    IN  IF Len(route) = 2
        THEN entry
        ELSE SubSeq(entry, 1, Len(entry) - 1) \o RouteClips(Tail(route))

EmptyPairs ==
    {<<"stand", "reach">>, <<"walk", "sit">>, <<"walk", "reach">>,
     <<"trot", "sit">>, <<"trot", "reach">>, <<"gallop", "sit">>,
     <<"gallop", "reach">>}

\* C6: for the seven pairs without a direct entry, findPath returns the
\* direct entries along the commented route with the intermediate loop clips
\* removed.
SearchFollowsCommentedRoute ==
    (pf.stage # "input" /\ <<pf.from, pf.to>> \in EmptyPairs) =>
        /\ Len(transitionGraph[pf.from][pf.to]) = 0
        /\ pf.path = RouteClips(CommentedRoute(pf.from, pf.to))
        /\ (pf.from = "walk" /\ pf.to = "sit") =>
              pf.path = <<"walk_to_stand", "stand_to_sit", "sit">>
        /\ (pf.from = "walk" /\ pf.to = "reach") =>
              pf.path = <<"walk_to_stand", "stand_to_sit", "sit_to_reach", "reach">>

SearchWitness ==
    /\ pf.stage = "path"
    /\ pf.from = "gallop"
    /\ pf.to = "reach"
    /\ pf.path = <<"gallop_to_trot", "trot_to_stand", "stand_to_sit",
                   "sit_to_reach", "reach">>

\* C7: findPath(s, s) is the graph's self-loop entry, the one-clip sequence s.
SelfPathIsLoop ==
    (pf.stage # "input" /\ pf.from = pf.to) =>
        /\ pf.path = transitionGraph[pf.from][pf.from]
        /\ pf.path = <<pf.from>>

SelfPathWitness ==
    /\ pf.stage = "path"
    /\ pf.from = "sit"
    /\ pf.to = "sit"
    /\ pf.path = <<"sit">>

RECURSIVE ReachableFrom(_)
\* The gaits reachable from a set of gaits through non-empty entries.
ReachableFrom(set) ==
    LET more == set \cup {t \in Gaits :
                    \E f \in set : Len(transitionGraph[f][t]) > 0}
    IN  IF more = set THEN set ELSE ReachableFrom(more)

\* C8: if to is reachable from from through non-empty entries, findPath is
\* not empty and the gait derived from its last clip is to.
PathEndsInTarget ==
    (pf.stage = "gait" /\ pf.to \in ReachableFrom({pf.from})) =>
        /\ Len(pf.path) > 0
        /\ pf.endGait = pf.to

PathEndWitness ==
    /\ pf.stage = "gait"
    /\ pf.from = "stand"
    /\ pf.to = "reach"
    /\ pf.to \in ReachableFrom({pf.from})
    /\ pf.path = <<"stand_to_sit", "sit_to_reach", "reach">>
    /\ pf.endGait = "reach"

GaitPriority == <<"gallop", "trot", "walk", "sit", "reach", "stand">>

\* C14: deriveGait(clipName) is the first gait, in the order gallop, trot,
\* walk, sit, reach, stand, whose name is a substring of clipName, and the
\* tracked gait when no gait name occurs in it; checked for every clip name
\* of the graph and for a name without a gait keyword.
DerivedGaitIsFirstKeyword ==
    pf.stage = "gait" =>
        LET hits == {i \in 1..Len(GaitPriority) :
                        Includes(pf.clip, GaitPriority[i])}
            first == CHOOSE i \in hits : \A j \in hits : i <= j
        IN  /\ pf.clipGait = IF hits = {} THEN pf.from ELSE GaitPriority[first]
            /\ pf.clip = "idle" => pf.clipGait = pf.from
            /\ pf.clip = "trot_to_stand" => pf.clipGait = "trot"
            /\ pf.clip = "stand_to_walk" => pf.clipGait = "walk"
            /\ pf.clip = "walk_to_gallop" => pf.clipGait = "gallop"
            /\ pf.clip = "sit_to_reach" => pf.clipGait = "sit"
            /\ pf.clip = "reach_to_sit" => pf.clipGait = "sit"
            /\ pf.clip = "sit_to_stand" => pf.clipGait = "sit"
            /\ pf.clip \in Gaits => pf.clipGait = pf.clip

DerivedGaitWitness ==
    /\ pf.stage = "gait"
    /\ pf.clip = "trot_to_stand"
    /\ pf.from = "walk"
    /\ pf.clipGait = "trot"

---------------------------------------------------------------------------
(* Properties of the path finder on every graph of SearchGraphs (GraphSpec) *)

Edge(from, to) == from # to /\ Len(graph[from][to]) > 0

RECURSIVE Routes(_, _)
\* The routes of n edges from a state that visit no state twice.
Routes(from, n) ==
    IF n = 0
    THEN {<<from>>}
    ELSE {Append(x[1], x[2]) :
             x \in {y \in Routes(from, n - 1) \X Gaits :
                       /\ Edge(y[1][Len(y[1])], y[2])
                       /\ y[2] \notin Range(y[1])}}

RoutesTo(from, to, n) == {r \in Routes(from, n) : r[n + 1] = to}

MaxEdges == Len(GaitState) - 1

Connected(from, to) == \E n \in 1..MaxEdges : RoutesTo(from, to, n) # {}

MinEdges(from, to) ==
    CHOOSE n \in 1..MaxEdges :
        /\ RoutesTo(from, to, n) # {}
        /\ \A m \in 1..(n - 1) : RoutesTo(from, to, m) = {}

DeclarationIndex(gait) == CHOOSE i \in 1..Len(GaitState) : GaitState[i] = gait

\* Of two routes of the same length, r is met before q by a search that
\* expands the states in declaration order.
MetBefore(r, q) ==
    \E k \in 1..Len(r) :
        /\ \A j \in 1..(k - 1) : r[j] = q[j]
        /\ DeclarationIndex(r[k]) < DeclarationIndex(q[k])

FirstShortestRoute(from, to) ==
    LET shortest == RoutesTo(from, to, MinEdges(from, to))
    IN  CHOOSE r \in shortest : \A q \in shortest \ {r} : MetBefore(r, q)

\* C20: when there is no direct entry, the route taken by findPath has the
\* minimum number of edges among all routes of the graph from from to to,
\* and among the routes of that length it is the one met first when the
\* states are expanded in declaration order; the result is a function of the
\* inputs.
SearchTakesFirstShortestRoute ==
    (/\ pf.stage # "input"
     /\ pf.from # pf.to
     /\ Len(graph[pf.from][pf.to]) = 0
     /\ Connected(pf.from, pf.to)) =>
        /\ pf.path = RouteClips(FirstShortestRoute(pf.from, pf.to))
        /\ pf.path = findTransitionPath(pf.from, pf.to)

\* walk -> gallop on TieGraph: through stand, not through trot, although the
\* route through trot has fewer clips.
TieBrokenWitness ==
    /\ pf.stage = "path"
    /\ graph = TieGraph
    /\ pf.from = "walk" /\ pf.to = "gallop"
    /\ Cardinality(RoutesTo("walk", "gallop", MinEdges("walk", "gallop"))) = 2
    /\ pf.path = <<"walk_to_stand", "stand_to_trot", "trot_to_gallop", "gallop">>

\* C21: in every sequence returned by the search, the closing clip of each
\* edge but the last is left out when it is named like the edge's
\* destination, so that a clip named like a gait occurs only as the last
\* element of the result, and that element is the loop clip of the target.
LoopClipOnlyAtEnd ==
    (/\ pf.stage # "input"
     /\ pf.from # pf.to
     /\ Len(graph[pf.from][pf.to]) = 0
     /\ Len(pf.path) > 0) =>
        /\ \A i \in 1..Len(pf.path) :
              pf.path[i] \in Gaits <=> i = Len(pf.path)
        /\ pf.path[Len(pf.path)] = pf.to
        /\ LET route == FirstShortestRoute(pf.from, pf.to)
           IN  \A k \in 1..(Len(route) - 1) :
                  LET entry == graph[route[k]][route[k + 1]]
                  IN  /\ entry[Len(entry)] = route[k + 1]
                      /\ \A j \in 1..(Len(entry) - 1) :
                            \E i \in 1..Len(pf.path) : pf.path[i] = entry[j]

LoopClipWitness ==
    /\ pf.stage = "path"
    /\ graph = transitionGraph
    /\ pf.from = "gallop" /\ pf.to = "reach"
    /\ pf.path = <<"gallop_to_trot", "trot_to_stand", "stand_to_sit",
                   "sit_to_reach", "reach">>

---------------------------------------------------------------------------
(* Specification of the walk-toggle controller                             *)

\* The model has the four clips the block asks for, or only the two loops
\* (the one-shot clips are named stand_to_walk and walk_to_stand in the
\* transition graph of the first block).
WalkerClipSets == {WalkerClips, {"stand", "walk"}}

WalkInit ==
    /\ SequencerInit
    /\ pf = PfIdle
    /\ AuthoredData
    /\ live = NoLive
    /\ walker = NoWalker

\* The GLTF loader calls back with the model's clips.
WalkLoad ==
    /\ ~walker.loaded
    /\ \E clips \in WalkerClipSets : walker' = WalkerLoadGLTF(walker, clips)
    /\ UNCHANGED <<seqvars, pf, graph, odd, live>>

\* Space, Enter or the button.
WalkToggle ==
    /\ walker' = [toggleWalk(walker)
                    EXCEPT !.restarted = @ \/ walker.shouldStopWalking]
    /\ UNCHANGED <<seqvars, pf, graph, odd, live>>

\* One animation frame.
WalkTick ==
    /\ walker' = WalkerAnimate(walker)
    /\ UNCHANGED <<seqvars, pf, graph, odd, live>>

WalkNext == WalkLoad \/ WalkToggle \/ WalkTick

WalkSpec == WalkInit /\ [][WalkNext]_vars

---------------------------------------------------------------------------
(* Properties of the walk-toggle controller (WalkSpec)                     *)

\* Nothing is in flight: no one-shot clip pending, no stop waiting.
Settled ==
    /\ walker.loaded
    /\ ~walker.isTransitioning
    /\ walker.pendingTransition = NoPending
    /\ ~walker.shouldStopWalking

\* The loop that goes with isWalking is the clip being played.
PlaysLoopOfWalking ==
    /\ walker.currentAction.set
    /\ walker.currentAction.loop
    /\ walker.selectedAnimation = IF walker.isWalking THEN "walk" ELSE "stand"

\* C31: whenever the controller is settled (isTransitioning false, no
\* pendingTransition, shouldStopWalking false) the looping clip being
\* played is walk if isWalking is true and stand if isWalking is false.
SettledClipMatchesWalking == Settled => PlaysLoopOfWalking

\* The same law for the runs in which no toggle was made while a stop was
\* waiting for the end of the walk cycle.
SettledClipMatchesUnlessRestarted ==
    (Settled /\ ~walker.restarted) => PlaysLoopOfWalking

\* The settled states of both kinds are reached.
SettledWalkingReached == Settled /\ walker.isWalking /\ PlaysLoopOfWalking

SettledStandingAfterWalkReached ==
    Settled /\ ~walker.isWalking /\ PlaysLoopOfWalking /\ walker.fade > 0

====
